---- MODULE Spec2Model ----
(***************************************************************************)
(* The resource store of emark: Container (store/container.rs), the tuple  *)
(* retrieval protocol (store/query.rs), the access wrappers (store/res.rs) *)
(* and the lock primitive they rest on (utils/lock).                       *)
(*                                                                         *)
(* Every lock is a parking_lot RwLock<()>.  A guard is a record            *)
(* [l |-> lock, m |-> "r" | "w"]; lock 0 is Container.resources (the       *)
(* structural lock), lock T > 0 is the GrainedLock stored under TypeId T.  *)
(* The state of a lock is not a variable of its own: it is the guards the  *)
(* threads hold and the writers parked on it.                              *)
(***************************************************************************)
EXTENDS Integers, Sequences, FiniteSets, TLC

\* ------------------------------------------------------------- bounds
NThreads == 2
MaxArity == 2
MaxVal == 2
MaxCalls == 3
MaxEmits == 3

\* ------------------------------------------------------------- constants
StructLock == 0
HashMapTypeId == 2
TypeIds == {1, 2, 3}
ResTypes == TypeIds \ {HashMapTypeId}
Threads == 1..NThreads
Vals == 1..MaxVal
Accesses == {"Immutable", "Mutable"}

VARIABLES
    resources,  \* the HashMap: a function from the present TypeIds to values
    boxty,      \* the dynamic type of the box stored under each present TypeId
    pc,         \* where each thread is
    req,        \* the declared request of a thread: <<[ty, acc]>>
    type_ids,   \* retrieve's array of (TypeId, Access, index), sorted
    cells,      \* retrieve's array of (TypeId, Retrieved, index), as filled
    cur,        \* guard stack of the Ref a thread is building
    result,     \* the views a retrieval returned
    arg,        \* arguments and removed box of add_resource / remove_resource
    prog,       \* a caller's program: the calls it makes, one after the other
    ip,         \* how many calls of prog have been started
    obs,        \* what the calls of prog returned, in order
    events,     \* EventManager.events: the pending event types, each with its Vec
    events_set, \* EventManager.events_set: the priority of each pending type
    events_bus, \* EventManager.events_bus: four buckets of EmittedEventInfo
    epc,        \* where each thread is in emit_priority / next_execution
    eloc,       \* the locals of the call a thread is in
    eret,       \* what a thread's last next_execution returned
    issued,     \* how many events have been emitted
    emitlog,    \* the emit_priority calls that returned, in order
    delivered   \* the events handed out by next_execution

evars == <<events, events_set, events_bus, epc, eloc, eret, issued, emitlog, delivered>>

vars == <<resources, boxty, pc, req, type_ids, cells, cur, result, arg, prog, ip, obs,
          events, events_set, events_bus, epc, eloc, eret, issued, emitlog, delivered>>

NoArg == [ty |-> 0, v |-> 0, bt |-> 0]

\* ------------------------------------------------------------- helpers
Min(S) == CHOOSE x \in S : \A y \in S : x <= y

RECURSIVE Flatten(_)
Flatten(ss) == IF ss = <<>> THEN <<>> ELSE Head(ss) \o Flatten(Tail(ss))

RECURSIVE SetSum(_, _)
SetSum(S, f) ==
    IF S = {} THEN 0
    ELSE LET x == CHOOSE y \in S : TRUE IN f[x] + SetSum(S \ {x}, f)

Guard(l, m) == [l |-> l, m |-> m]

\* every guard a thread owns: its finished cells, the Ref it is building, its views
GuardsOf(t) ==
    Flatten([i \in 1..Len(cells[t]) |-> cells[t][i].locks])
        \o cur[t]
        \o Flatten([i \in 1..Len(result[t]) |-> result[t][i].locks])

CountOf(gs, g) == Len(SelectSeq(gs, LAMBDA x : x = g))

\* the element of type_ids the running get is for
Current(t) == type_ids[t][Len(cells[t]) + 1]

\* ------------------------------------------------------------- RwLock
Readers(l) == SetSum(Threads, [t \in Threads |-> CountOf(GuardsOf(t), Guard(l, "r"))])

WriterHeld(l) == \E t \in Threads : CountOf(GuardsOf(t), Guard(l, "w")) > 0

\* a writer that has set WRITER_BIT and waits for the readers to leave
ParkedOn(t) ==
    IF pc[t] \in {"add_wait", "remove_wait", "hashmap_wait"} THEN StructLock
    ELSE IF pc[t] = "borrow_mut_wait" THEN Current(t).ty
    ELSE -1

WriterBit(l) == WriterHeld(l) \/ \E t \in Threads : ParkedOn(t) = l

\* a reader that does not look at WRITER_BIT
CanReadAlways(l) == TRUE

\* RwLock::read: a new reader parks while WRITER_BIT is set
CanRead(l) == ~WriterBit(l)

\* RwLock::write, first half: take WRITER_BIT
CanClaimWrite(l) == ~WriterBit(l)

\* a writer that does not wait for the readers
CanWriteAtOnce(l) == TRUE

\* RwLock::write, second half: wait for the readers to leave
CanWrite(l) == Readers(l) = 0

\* ------------------------------------------------------------- sort_by
\* a sort that leaves the array as it is
SortNothing(s) == s

RECURSIVE InsertByTy(_, _)
InsertByTy(e, s) ==
    IF s = <<>> THEN <<e>>
    ELSE IF e.ty < Head(s).ty THEN <<e>> \o s
    ELSE <<Head(s)>> \o InsertByTy(e, Tail(s))

RECURSIVE SortByTy(_)
SortByTy(s) ==
    IF s = <<>> THEN <<>>
    ELSE InsertByTy(s[Len(s)], SortByTy(SubSeq(s, 1, Len(s) - 1)))

RECURSIVE InsertByIdx(_, _)
InsertByIdx(e, s) ==
    IF s = <<>> THEN <<e>>
    ELSE IF e.idx < Head(s).idx THEN <<e>> \o s
    ELSE <<Head(s)>> \o InsertByIdx(e, Tail(s))

RECURSIVE SortByIdx(_)
SortByIdx(s) ==
    IF s = <<>> THEN <<>>
    ELSE InsertByIdx(s[Len(s)], SortByIdx(SubSeq(s, 1, Len(s) - 1)))

\* ------------------------------------------------------------- requests
Elems == [ty : TypeIds, acc : Accesses]

AllRequests == UNION {[1..n -> Elems] : n \in 1..MaxArity}

\* requests for resources of the store
Requests == {r \in AllRequests : \A i \in 1..Len(r) : r[i].ty \in ResTypes}

\* requests that name the store's own map
HashMapRequests == AllRequests \ Requests

\* no type identity twice
WellFormed(r) == \A i, j \in 1..Len(r) : i # j => r[i].ty # r[j].ty

\* the same type identity twice, at least once exclusively
Malformed(r) ==
    \E i, j \in 1..Len(r) :
        i # j /\ r[i].ty = r[j].ty /\ (r[i].acc = "Mutable" \/ r[j].acc = "Mutable")

\* the array left in declared order
TypeIdsUnsorted(r) == [i \in 1..Len(r) |-> [ty |-> r[i].ty, acc |-> r[i].acc, idx |-> i - 1]]

\* the array retrieve builds and sorts
TypeIdsOf(r) == SortByTy([i \in 1..Len(r) |-> [ty |-> r[i].ty, acc |-> r[i].acc, idx |-> i - 1]])

\* ------------------------------------------------------------- EventManager: state
\* Priority as u8 / usize: Interrupt = 0, High = 1, Normal = 2, Routine = 3
Priorities == 0..3

EventTypes == {1, 2}

NoInfo == [ty |-> 0, priority |-> 0]

NoLoc == [ty |-> 0, p |-> 0, id |-> 0, idx |-> 0, info |-> NoInfo, infos |-> <<>>,
          ev |-> <<>>, batch |-> <<>>]

NoRet == [kind |-> "", batch |-> <<>>]

\* EventManager::new()
EventInit ==
    /\ events = [x \in {} |-> <<>>]
    /\ events_set = [x \in {} |-> 0]
    /\ events_bus = [i \in 1..4 |-> <<>>]
    /\ epc = [t \in Threads |-> "idle"]
    /\ eloc = [t \in Threads |-> NoLoc]
    /\ eret = [t \in Threads |-> NoRet]
    /\ issued = 0
    /\ emitlog = <<>>
    /\ delivered = {}

Init ==
    /\ EventInit
    /\ resources \in UNION {[D -> Vals] : D \in SUBSET ResTypes}
    /\ boxty = [x \in DOMAIN resources |-> x]
    /\ pc = [t \in Threads |-> "idle"]
    /\ req = [t \in Threads |-> <<>>]
    /\ type_ids = [t \in Threads |-> <<>>]
    /\ cells = [t \in Threads |-> <<>>]
    /\ cur = [t \in Threads |-> <<>>]
    /\ result = [t \in Threads |-> <<>>]
    /\ arg = [t \in Threads |-> NoArg]
    /\ prog = <<>>
    /\ ip = 0
    /\ obs = <<>>

\* ------------------------------------------------------------- retrieve
Retrieve(t, r) ==
    /\ pc[t] = "idle"
    /\ req' = [req EXCEPT ![t] = r]
    /\ type_ids' = [type_ids EXCEPT ![t] = TypeIdsOf(r)]
    /\ cells' = [cells EXCEPT ![t] = <<>>]
    /\ pc' = [pc EXCEPT ![t] = "get"]
    /\ UNCHANGED <<resources, boxty, cur, result, arg>>

\* ------------------------------------------------------------- Container::get
\* a get whose NotFound keeps the guard of the presence check
PushCellHolding(t, tag, locks) ==
    /\ cells' = [cells EXCEPT ![t] = Append(@,
            [ty |-> Current(t).ty, tag |-> tag, idx |-> Current(t).idx,
             locks |-> IF tag = "NotFound" THEN <<Guard(StructLock, "r")>> ELSE locks])]
    /\ pc' = [pc EXCEPT ![t] =
            IF Len(cells[t]) + 1 = Len(type_ids[t]) THEN "convert" ELSE "get"]
    /\ cur' = [cur EXCEPT ![t] = <<>>]

\* get returns: the Retrieved goes into the next cell of retrieve's array
PushCell(t, tag, locks) ==
    /\ cells' = [cells EXCEPT ![t] = Append(@,
            [ty |-> Current(t).ty, tag |-> tag, locks |-> locks, idx |-> Current(t).idx])]
    /\ pc' = [pc EXCEPT ![t] =
            IF Len(cells[t]) + 1 = Len(type_ids[t]) THEN "convert" ELSE "get"]
    /\ cur' = [cur EXCEPT ![t] = <<>>]

\* a panic that leaves the cells, and the guards in them, where they are
PanicKeepsGuards(t, how) ==
    /\ pc' = [pc EXCEPT ![t] = how]
    /\ UNCHANGED <<cells, cur, result>>

\* a panic unwinds the call: every guard the thread owns is dropped
Panic(t, how) ==
    /\ pc' = [pc EXCEPT ![t] = how]
    /\ cells' = [cells EXCEPT ![t] = <<>>]
    /\ cur' = [cur EXCEPT ![t] = <<>>]
    /\ result' = [result EXCEPT ![t] = <<>>]

\* GrainedLock::borrow / borrow_mut: a Ref whose stack is the one guard
borrow(l) == <<Guard(l, "r")>>

\* a borrow_mut that takes the lock shared
borrow_mut_shared(l) == <<Guard(l, "r")>>

borrow_mut(l) == <<Guard(l, "w")>>

\* a map_cell that drops the guards it was given
map_cell_unguarded(locks) == <<>>

\* Ref::map_cell: the pointer moves to the nested lock, the guard stack is kept
map_cell(locks) == locks

\* Ref::borrow / Ref::borrow_mut: the nested lock's guard is pushed on the stack
RefBorrowAlone(locks, l) == <<Guard(l, "r")>>

RefBorrow(locks, l) == Append(locks, Guard(l, "r"))

\* a borrow_mut that takes the nested lock shared
RefBorrowMutShared(locks, l) == Append(locks, Guard(l, "r"))

RefBorrowMut(locks, l) == Append(locks, Guard(l, "w"))

\* type_id == TypeId::of::<HashMap<..>>(), Access::Immutable
GetHashMap(t) ==
    /\ pc[t] = "get"
    /\ Current(t).ty = HashMapTypeId
    /\ Current(t).acc = "Immutable"
    /\ CanRead(StructLock)
    /\ PushCell(t, "Immutable", borrow(StructLock))
    /\ UNCHANGED <<resources, boxty, req, type_ids, result, arg>>

\* type_id == TypeId::of::<HashMap<..>>(), Access::Mutable: write() takes WRITER_BIT
GetHashMapMutClaim(t) ==
    /\ pc[t] = "get"
    /\ Current(t).ty = HashMapTypeId
    /\ Current(t).acc = "Mutable"
    /\ CanClaimWrite(StructLock)
    /\ pc' = [pc EXCEPT ![t] = "hashmap_wait"]
    /\ UNCHANGED <<resources, boxty, req, type_ids, cells, cur, result, arg>>

GetHashMapMut(t) ==
    /\ pc[t] = "hashmap_wait"
    /\ CanWrite(StructLock)
    /\ PushCell(t, "Mutable", borrow_mut(StructLock))
    /\ UNCHANGED <<resources, boxty, req, type_ids, result, arg>>

\* the condition of the if: borrow(), contains_key, and the temporary Ref is dropped
GetContains(t) ==
    /\ pc[t] = "get"
    /\ Current(t).ty # HashMapTypeId
    /\ CanRead(StructLock)
    /\ IF Current(t).ty \in DOMAIN resources
       THEN /\ pc' = [pc EXCEPT ![t] = "map_cell"]
            /\ UNCHANGED <<cells, cur>>
       ELSE PushCell(t, "NotFound", <<>>)
    /\ UNCHANGED <<resources, boxty, req, type_ids, result, arg>>

\* a second borrow(), then map_cell(|r| r.get(&type_id).unwrap())
GetMapCell(t) ==
    /\ pc[t] = "map_cell"
    /\ CanRead(StructLock)
    /\ IF Current(t).ty \in DOMAIN resources
       THEN /\ cur' = [cur EXCEPT ![t] = map_cell(borrow(StructLock))]
            /\ pc' = [pc EXCEPT ![t] = "descend"]
            /\ UNCHANGED <<cells, result>>
       ELSE Panic(t, "panic_unwrap")
    /\ UNCHANGED <<resources, boxty, req, type_ids, arg>>

\* Access::Immutable => resource.borrow()
GetBorrow(t) ==
    /\ pc[t] = "descend"
    /\ Current(t).acc = "Immutable"
    /\ CanRead(Current(t).ty)
    /\ PushCell(t, "Immutable", RefBorrow(cur[t], Current(t).ty))
    /\ UNCHANGED <<resources, boxty, req, type_ids, result, arg>>

\* Access::Mutable => resource.borrow_mut(): write() takes WRITER_BIT
GetBorrowMutClaim(t) ==
    /\ pc[t] = "descend"
    /\ Current(t).acc = "Mutable"
    /\ CanClaimWrite(Current(t).ty)
    /\ pc' = [pc EXCEPT ![t] = "borrow_mut_wait"]
    /\ UNCHANGED <<resources, boxty, req, type_ids, cells, cur, result, arg>>

GetBorrowMut(t) ==
    /\ pc[t] = "borrow_mut_wait"
    /\ CanWrite(Current(t).ty)
    /\ PushCell(t, "Mutable", RefBorrowMut(cur[t], Current(t).ty))
    /\ UNCHANGED <<resources, boxty, req, type_ids, result, arg>>

\* ------------------------------------------------------------- access wrappers
ViewNames == {"Res", "ResMut", "ResClone", "OptRes", "OptResMut", "OptResClone"}

\* Retrievable::Access of each wrapper
AccessOf(view) == IF view \in {"ResMut", "OptResMut"} THEN "Mutable" ELSE "Immutable"

Required(view) == view \in {"Res", "ResMut", "ResClone"}

RefView(view, c) == [view |-> view, ty |-> c.ty, kind |-> "ref", locks |-> c.locks, val |-> 0]

\* a clone that keeps the Ref it was cloned from
CloneViewGuarded(view, c) ==
    [view |-> view, ty |-> c.ty, kind |-> "clone", locks |-> c.locks, val |-> resources[c.ty]]

\* a clone that is T::default() whatever is stored
CloneViewDefault(view, c) ==
    [view |-> view, ty |-> c.ty, kind |-> "clone", locks |-> <<>>, val |-> Min(Vals)]

\* downcast_ref::<T>().unwrap().clone(): the value is cloned out and the Ref,
\* with its guards, is dropped; a box that is not a T fails the unwrap
CloneView(view, c) ==
    IF boxty[c.ty] = c.ty
    THEN [view |-> view, ty |-> c.ty, kind |-> "clone", locks |-> <<>>, val |-> resources[c.ty]]
    ELSE [view |-> view, ty |-> c.ty, kind |-> "downcast", locks |-> <<>>, val |-> 0]

NoneView(view, c) == [view |-> view, ty |-> c.ty, kind |-> "none", locks |-> <<>>, val |-> 0]

PanicView(view, c) == [view |-> view, ty |-> c.ty, kind |-> "panic", locks |-> <<>>, val |-> 0]

\* a from_retrieved that answers an absent resource with an empty view
from_retrieved_lenient(view, c) ==
    IF c.tag = "NotFound" THEN NoneView(view, c)
    ELSE IF view \in {"ResClone", "OptResClone"} THEN CloneView(view, c)
    ELSE RefView(view, c)

\* from_retrieved of the Retrievable impls, and the match of the Retriever impls
from_retrieved(view, c) ==
    CASE view = "Res" -> IF c.tag = "Immutable" THEN RefView(view, c) ELSE PanicView(view, c)
      [] view = "ResMut" -> IF c.tag = "Mutable" THEN RefView(view, c) ELSE PanicView(view, c)
      [] view = "ResClone" -> IF c.tag = "Immutable" THEN CloneView(view, c) ELSE PanicView(view, c)
      [] view = "OptRes" -> IF c.tag = "Immutable" THEN RefView(view, c) ELSE NoneView(view, c)
      [] view = "OptResMut" -> IF c.tag = "Mutable" THEN RefView(view, c) ELSE NoneView(view, c)
      [] view = "OptResClone" -> IF c.tag = "Immutable" THEN CloneView(view, c) ELSE NoneView(view, c)

\* The wrapper types a request can stand for.  Until from_retrieved a wrapper
\* contributes only its type_id() and its Access, so the request carries those two
\* and the wrapper names are drawn here.  Option<ResClone> is a Retriever only,
\* and the map is not Clone.
ViewsOf(r, direct) ==
    {vs \in [1..Len(r) -> ViewNames] : \A i \in 1..Len(r) :
        /\ AccessOf(vs[i]) = r[i].acc
        /\ vs[i] = "OptResClone" => direct
        /\ vs[i] \in {"ResClone", "OptResClone"} => r[i].ty # HashMapTypeId}

\* the cells taken in the order they were filled
ResolveUnsorted(cs, vs) == [i \in 1..Len(cs) |-> from_retrieved(vs[i], cs[i])]

\* cells.sort_by(index), then one from_retrieved per declared position
Resolve(cs, vs) ==
    LET sorted == SortByIdx(cs)
    IN  [i \in 1..Len(cs) |-> from_retrieved(vs[i], sorted[i])]

\* the tail of retrieve: the tuple is returned, or the first panic unwinds the call
Convert(t, vs, direct) ==
    /\ pc[t] = "convert"
    /\ direct => Len(req[t]) = 1
    /\ vs \in ViewsOf(req[t], direct)
    /\ LET out == Resolve(cells[t], vs)
           bad == {i \in 1..Len(out) : out[i].kind \in {"panic", "downcast"}}
           first == CHOOSE i \in bad : \A j \in bad : i <= j
       IN  IF bad # {}
           THEN Panic(t, IF out[first].kind = "downcast" THEN "panic_downcast"
                         ELSE IF direct THEN "panic_not_found" ELSE "panic_unreachable")
           ELSE /\ result' = [result EXCEPT ![t] = out]
                /\ cells' = [cells EXCEPT ![t] = <<>>]
                /\ pc' = [pc EXCEPT ![t] = "holding"]
                /\ UNCHANGED cur
    /\ UNCHANGED <<resources, boxty, req, type_ids, arg>>

\* the returned views go out of scope: every Ref drops its guard stack
Drop(t) ==
    /\ pc[t] = "holding"
    /\ result' = [result EXCEPT ![t] = <<>>]
    /\ req' = [req EXCEPT ![t] = <<>>]
    /\ type_ids' = [type_ids EXCEPT ![t] = <<>>]
    /\ pc' = [pc EXCEPT ![t] = "idle"]
    /\ UNCHANGED <<resources, boxty, cells, cur, arg>>

\* ------------------------------------------------------------- using a view
\* Deref of Res / ResMut: self.0.downcast_ref().unwrap(); of ResClone: &self.0
Deref(t, i) ==
    IF result[t][i].kind = "clone" THEN result[t][i].val ELSE resources[result[t][i].ty]

\* the unwrap of the downcast fails on a box that is not a T
DowncastFails(t, i) ==
    result[t][i].kind = "ref" /\ boxty[result[t][i].ty] # result[t][i].ty

\* let x = *view
ReadView(t, i) ==
    /\ pc[t] = "holding"
    /\ i \in 1..Len(result[t])
    /\ result[t][i].kind \in {"ref", "clone"}
    /\ IF DowncastFails(t, i)
       THEN Panic(t, "panic_downcast")
       ELSE UNCHANGED <<pc, cells, cur, result>>
    /\ UNCHANGED <<resources, boxty, req, type_ids, arg>>

\* a DerefMut that writes nothing
StoreNothing(m, ty, v) == m

\* *view = v stores v in the box
StoreValue(m, ty, v) == [m EXCEPT ![ty] = v]

\* DerefMut of ResMut: *view = v
WriteView(t, i, v) ==
    /\ pc[t] = "holding"
    /\ i \in 1..Len(result[t])
    /\ result[t][i].kind = "ref"
    /\ result[t][i].view \in {"ResMut", "OptResMut"}
    /\ IF DowncastFails(t, i)
       THEN /\ Panic(t, "panic_downcast")
            /\ UNCHANGED resources
       ELSE /\ resources' = StoreValue(resources, result[t][i].ty, v)
            /\ UNCHANGED <<pc, cells, cur, result>>
    /\ UNCHANGED <<boxty, req, type_ids, arg>>

\* a leak that forgets the Ref: the guards stay locked
LeakForget(locks) == locks

\* Ref::leak(self): the pointer is returned and self, with its guard stack, is
\* dropped at the end of the function
LeakLocks(locks) == <<>>

Leak(t, i) ==
    /\ pc[t] = "holding"
    /\ i \in 1..Len(result[t])
    /\ result[t][i].kind = "ref"
    /\ result' = [result EXCEPT ![t][i] =
            [@ EXCEPT !.kind = "leaked", !.locks = LeakLocks(result[t][i].locks)]]
    /\ UNCHANGED <<resources, boxty, pc, req, type_ids, cells, cur, arg>>

\* a stack dropped from its first guard to its last
ReleaseInOrder(locks) == locks

\* drop of a Ref's guard stack: the last guard pushed is released first
ReleaseOrder(locks) == [k \in 1..Len(locks) |-> locks[Len(locks) + 1 - k]]

\* the locks Drop(t) releases, in order: the views of the tuple in declared
\* order, each Ref its stack
Released(t) == Flatten([i \in 1..Len(result[t]) |-> ReleaseOrder(result[t][i].locks)])

\* ------------------------------------------------------------- add / remove
\* an insert that keeps the value of a present key
MapInsertKeepsOld(m, ty, v) ==
    [x \in DOMAIN m \cup {ty} |-> IF x \in DOMAIN m THEN m[x] ELSE v]

\* HashMap::insert(type_id, GrainedLock::new(resource))
MapInsert(m, ty, v) == [x \in DOMAIN m \cup {ty} |-> IF x = ty THEN v ELSE m[x]]

\* a remove that empties the map
MapRemoveAll(m, ty) == [x \in {} |-> 0]

\* a remove that leaves the entry in the map
MapRemoveKeeps(m, ty) == m

\* HashMap::remove(&type_id)
MapRemove(m, ty) == [x \in DOMAIN m \ {ty} |-> m[x]]

\* add_resource_any(type_id, resource): a box of dynamic type bt goes under ty;
\* self.resources.borrow_mut(): write() takes WRITER_BIT
AddResourceAnyClaim(t, ty, bt, v) ==
    /\ pc[t] = "idle"
    /\ CanClaimWrite(StructLock)
    /\ arg' = [arg EXCEPT ![t] = [ty |-> ty, v |-> v, bt |-> bt]]
    /\ pc' = [pc EXCEPT ![t] = "add_wait"]
    /\ UNCHANGED <<resources, boxty, req, type_ids, cells, cur, result>>

\* add_resource::<T>(resource): add_resource_any(TypeId::of::<T>(), Box::new(resource))
AddResourceClaim(t, ty, v) == AddResourceAnyClaim(t, ty, ty, v)

\* the write guard is held and the entry is inserted, overwriting
AddResourceLocked(t) ==
    /\ pc[t] = "add_wait"
    /\ CanWrite(StructLock)
    /\ cur' = [cur EXCEPT ![t] = borrow_mut(StructLock)]
    /\ resources' = MapInsert(resources, arg[t].ty, arg[t].v)
    /\ boxty' = MapInsert(boxty, arg[t].ty, arg[t].bt)
    /\ pc' = [pc EXCEPT ![t] = "add_held"]
    /\ UNCHANGED <<req, type_ids, cells, result, arg>>

\* end of the statement: the temporary Ref is dropped
AddResourceReturn(t) ==
    /\ pc[t] = "add_held"
    /\ cur' = [cur EXCEPT ![t] = <<>>]
    /\ arg' = [arg EXCEPT ![t] = NoArg]
    /\ pc' = [pc EXCEPT ![t] = "idle"]
    /\ UNCHANGED <<resources, boxty, req, type_ids, cells, result>>

RemoveResourceClaim(t, ty) ==
    /\ pc[t] = "idle"
    /\ CanClaimWrite(StructLock)
    /\ arg' = [arg EXCEPT ![t] = [ty |-> ty, v |-> 0, bt |-> 0]]
    /\ pc' = [pc EXCEPT ![t] = "remove_wait"]
    /\ UNCHANGED <<resources, boxty, req, type_ids, cells, cur, result>>

\* the write guard is held and the entry leaves the map; arg.v is the removed box
RemoveResourceLocked(t) ==
    /\ pc[t] = "remove_wait"
    /\ CanWrite(StructLock)
    /\ cur' = [cur EXCEPT ![t] = borrow_mut(StructLock)]
    /\ arg' = [arg EXCEPT ![t] =
            IF arg[t].ty \in DOMAIN resources
            THEN [ty |-> arg[t].ty, v |-> resources[arg[t].ty], bt |-> boxty[arg[t].ty]]
            ELSE [ty |-> arg[t].ty, v |-> 0, bt |-> 0]]
    /\ resources' = MapRemove(resources, arg[t].ty)
    /\ boxty' = MapRemove(boxty, arg[t].ty)
    /\ pc' = [pc EXCEPT ![t] = "remove_held"]
    /\ UNCHANGED <<req, type_ids, cells, result>>

\* .map(|b| b.take()): take() write-locks the removed GrainedLock; then the
\* temporary Ref is dropped, remove_resource::<T> unwraps the downcast of the
\* box to T and the call returns
RemoveResourceTake(t) ==
    /\ pc[t] = "remove_held"
    /\ arg[t].v # 0 => (CanClaimWrite(arg[t].ty) /\ CanWrite(arg[t].ty))
    /\ arg' = [arg EXCEPT ![t] = NoArg]
    /\ IF arg[t].v # 0 /\ arg[t].bt # arg[t].ty
       THEN Panic(t, "panic_downcast")
       ELSE /\ cur' = [cur EXCEPT ![t] = <<>>]
            /\ pc' = [pc EXCEPT ![t] = "idle"]
            /\ UNCHANGED <<cells, result>>
    /\ UNCHANGED <<resources, boxty, req, type_ids>>

\* a contains_key that is true of every key of a map that is not empty
contains_some_key(m, ty) == DOMAIN m # {}

\* HashMap::contains_key(&type_id)
contains_key(m, ty) == ty \in DOMAIN m

\* contains_resource::<T>(): borrow(), contains_key, and the temporary Ref is dropped
ContainsResource(t, ty) ==
    /\ pc[t] = "idle"
    /\ CanRead(StructLock)
    /\ UNCHANGED <<resources, boxty, pc, req, type_ids, cells, cur, result, arg>>

\* ------------------------------------------------------------- specification
Get(t) ==
    \/ GetContains(t)
    \/ GetMapCell(t)
    \/ GetBorrow(t)
    \/ GetBorrowMutClaim(t)
    \/ GetBorrowMut(t)

\* no program is being followed
NoProgram == UNCHANGED <<prog, ip, obs>> /\ UNCHANGED evars

Next ==
    \E t \in Threads :
        \/ NoProgram /\ \E r \in Requests : Retrieve(t, r)
        \/ NoProgram /\ Get(t)
        \/ NoProgram /\ \E direct \in BOOLEAN : \E vs \in [1..Len(req[t]) -> ViewNames] :
                            Convert(t, vs, direct)
        \/ NoProgram /\ Drop(t)
        \/ NoProgram /\ \E ty \in ResTypes : \E v \in Vals : AddResourceClaim(t, ty, v)
        \/ NoProgram /\ AddResourceLocked(t)
        \/ NoProgram /\ AddResourceReturn(t)
        \/ NoProgram /\ \E ty \in ResTypes : RemoveResourceClaim(t, ty)
        \/ NoProgram /\ RemoveResourceLocked(t)
        \/ NoProgram /\ RemoveResourceTake(t)

Spec == Init /\ [][Next]_vars

\* the same, with requests for the store's own map
NextHashMap ==
    \/ Next
    \/ \E t \in Threads :
        \/ NoProgram /\ \E r \in HashMapRequests : Retrieve(t, r)
        \/ NoProgram /\ GetHashMap(t)
        \/ NoProgram /\ GetHashMapMutClaim(t)
        \/ NoProgram /\ GetHashMapMut(t)

SpecHashMap == Init /\ [][NextHashMap]_vars

\* requests that name the store's own map, with inserts and removes
NextOwnMap ==
    \E t \in Threads :
        \/ NoProgram /\ \E r \in HashMapRequests : Retrieve(t, r)
        \/ NoProgram /\ Get(t)
        \/ NoProgram /\ GetHashMap(t)
        \/ NoProgram /\ GetHashMapMutClaim(t)
        \/ NoProgram /\ GetHashMapMut(t)
        \/ NoProgram /\ \E direct \in BOOLEAN : \E vs \in [1..Len(req[t]) -> ViewNames] :
                            Convert(t, vs, direct)
        \/ NoProgram /\ Drop(t)
        \/ NoProgram /\ \E ty \in ResTypes : \E v \in Vals : AddResourceClaim(t, ty, v)
        \/ NoProgram /\ AddResourceLocked(t)
        \/ NoProgram /\ AddResourceReturn(t)
        \/ NoProgram /\ \E ty \in ResTypes : RemoveResourceClaim(t, ty)
        \/ NoProgram /\ RemoveResourceLocked(t)
        \/ NoProgram /\ RemoveResourceTake(t)

SpecOwnMap == Init /\ [][NextOwnMap]_vars

\* Retrievals only: every thread issues well-formed requests for present resources,
\* over and over, and drops what it got.  The scheduler runs a thread that can
\* run; parking_lot's RwLock is eventually fair, so a thread that can take a lock
\* again and again does take it.
InitRetrieve == Init /\ DOMAIN resources = ResTypes

Step(t) ==
    \/ NoProgram /\ Get(t)
    \/ NoProgram /\ \E direct \in BOOLEAN : \E vs \in [1..Len(req[t]) -> ViewNames] :
                        Convert(t, vs, direct)
    \/ NoProgram /\ Drop(t)

NextRetrieve ==
    \E t \in Threads :
        \/ NoProgram /\ \E r \in {x \in Requests : WellFormed(x)} : Retrieve(t, r)
        \/ Step(t)

SpecRetrieve ==
    InitRetrieve /\ [][NextRetrieve]_vars /\ \A t \in Threads : SF_vars(Step(t))

\* ------------------------------------------------------------- programs
\* One caller at a time: a program is a list of calls on the store and on the views
\* a thread holds; a call starts when no other call is running, and what it
\* returns is appended to obs.
PanicStates == {"panic_unwrap", "panic_not_found", "panic_unreachable", "panic_downcast"}

Call(op, t, ty, bt, v, tys, vs, direct, i) ==
    [op |-> op, t |-> t, ty |-> ty, bt |-> bt, v |-> v, tys |-> tys, vs |-> vs,
     direct |-> direct, i |-> i]

\* container.add_resource(v) for a T
CAdd(t, ty, v) == Call("add", t, ty, ty, v, <<>>, <<>>, FALSE, 0)

\* container.add_resource_any(type_id, Box::new(v)) for a box of type bt
CAddAny(t, ty, bt, v) == Call("add", t, ty, bt, v, <<>>, <<>>, FALSE, 0)

\* container.remove_resource::<T>()
CRemove(t, ty) == Call("remove", t, ty, 0, 0, <<>>, <<>>, FALSE, 0)

\* container.contains_resource::<T>()
CContains(t, ty) == Call("contains", t, ty, 0, 0, <<>>, <<>>, FALSE, 0)

\* W::retrieve(&container) for one wrapper W
CGet(t, ty, view) == Call("get", t, 0, 0, 0, <<ty>>, <<view>>, TRUE, 0)

\* <(W1, .., Wn)>::retrieve(&container)
CGetTuple(t, tys, vs) == Call("get", t, 0, 0, 0, tys, vs, FALSE, 0)

\* *view = v, let x = *view, drop(views), leak of the Ref of a view
CWrite(t, i, v) == Call("write", t, 0, 0, v, <<>>, <<>>, FALSE, i)

CRead(t, i) == Call("read", t, 0, 0, 0, <<>>, <<>>, FALSE, i)

CDrop(t) == Call("drop", t, 0, 0, 0, <<>>, <<>>, FALSE, 0)

CLeak(t, i) == Call("leak", t, 0, 0, 0, <<>>, <<>>, FALSE, i)

\* the request a retrieval of these wrappers makes
ReqOf(c) == [k \in 1..Len(c.tys) |-> [ty |-> c.tys[k], acc |-> AccessOf(c.vs[k])]]

\* what a call returned
Ob(tag, vals) == [tag |-> tag, vals |-> vals]

Quiescent == \A t \in Threads : pc[t] \in {"idle", "holding"} \cup PanicStates

\* the next call of the program can start
Ready(op) == ip < Len(prog) /\ Quiescent /\ prog[ip + 1].op = op

\* the call that is running
Running == prog[ip]

Started == ip' = ip + 1 /\ UNCHANGED prog /\ UNCHANGED evars

Returned(o) == obs' = Append(obs, o) /\ UNCHANGED <<prog, ip>> /\ UNCHANGED evars

Continues == UNCHANGED <<prog, ip, obs>> /\ UNCHANGED evars

\* the outcome of a step that may panic
OrPanic(t, o) == IF pc'[t] \in PanicStates THEN Ob(pc'[t], <<>>) ELSE o

CallAdd ==
    /\ Ready("add")
    /\ LET c == prog[ip + 1] IN AddResourceAnyClaim(c.t, c.ty, c.bt, c.v)
    /\ Started /\ UNCHANGED obs

RunAddLocked == ip > 0 /\ AddResourceLocked(Running.t) /\ Continues

RunAddReturn == ip > 0 /\ AddResourceReturn(Running.t) /\ Returned(Ob("unit", <<>>))

CallRemove ==
    /\ Ready("remove")
    /\ LET c == prog[ip + 1] IN RemoveResourceClaim(c.t, c.ty)
    /\ Started /\ UNCHANGED obs

RunRemoveLocked == ip > 0 /\ RemoveResourceLocked(Running.t) /\ Continues

\* Some(v) or None
RunRemoveTake ==
    /\ ip > 0
    /\ RemoveResourceTake(Running.t)
    /\ LET t == Running.t
       IN  Returned(OrPanic(t, IF arg[t].v # 0 THEN Ob("some", <<arg[t].v>>)
                                ELSE Ob("none", <<>>)))

CallContains ==
    /\ Ready("contains")
    /\ LET c == prog[ip + 1]
       IN  /\ ContainsResource(c.t, c.ty)
           /\ obs' = Append(obs, Ob(IF contains_key(resources, c.ty) THEN "true" ELSE "false", <<>>))
    /\ Started

CallGet ==
    /\ Ready("get")
    /\ LET c == prog[ip + 1] IN Retrieve(c.t, ReqOf(c))
    /\ Started /\ UNCHANGED obs

RunGet == ip > 0 /\ Get(Running.t) /\ Continues

\* per declared position: 1 for a view of the resource, 0 for None
RunConvert ==
    /\ ip > 0
    /\ Running.op = "get"
    /\ Convert(Running.t, Running.vs, Running.direct)
    /\ LET t == Running.t
       IN  Returned(OrPanic(t, Ob("views", [k \in 1..Len(req[t]) |->
                IF result'[t][k].kind = "none" THEN 0 ELSE 1])))

CallRead ==
    /\ Ready("read")
    /\ LET c == prog[ip + 1]
       IN  /\ ReadView(c.t, c.i)
           /\ obs' = Append(obs, OrPanic(c.t, Ob("value", <<Deref(c.t, c.i)>>)))
    /\ Started

CallWrite ==
    /\ Ready("write")
    /\ LET c == prog[ip + 1]
       IN  /\ WriteView(c.t, c.i, c.v)
           /\ obs' = Append(obs, OrPanic(c.t, Ob("unit", <<>>)))
    /\ Started

\* the locks released, in the order of their release
CallDrop ==
    /\ Ready("drop")
    /\ LET c == prog[ip + 1]
       IN  /\ Drop(c.t)
           /\ obs' = Append(obs, Ob("released",
                [k \in 1..Len(Released(c.t)) |-> Released(c.t)[k].l]))
    /\ Started

CallLeak ==
    /\ Ready("leak")
    /\ LET c == prog[ip + 1]
       IN  /\ Leak(c.t, c.i)
           /\ obs' = Append(obs, Ob("pointer", <<>>))
    /\ Started

\* insert, optional retrieval, remove, optional retrieval
OptionViews == {"OptRes", "OptResMut", "OptResClone"}

RoundTrips ==
    {<<CAdd(t, ty, v), CGet(t, ty, o1), CDrop(t), CRemove(t, ty), CGet(t, ty, o2), CDrop(t)>> :
        <<t, ty, v, o1, o2>> \in Threads \X ResTypes \X Vals \X OptionViews \X OptionViews}

\* two types inserted, the first removed, the second looked up and read
Isolations ==
    {<<CAdd(t, a, va), CAdd(t, b, vb), CRemove(t, a), CContains(t, b), CContains(t, a),
       CGet(t, b, w), CRead(t, 1), CDrop(t)>> :
        <<t, a, b, va, vb, w>> \in
            {x \in Threads \X ResTypes \X ResTypes \X Vals \X Vals \X ViewNames : x[2] # x[3]}}

\* a value is written through an exclusive view, the view is dropped, and a
\* shared retrieval reads the resource; with a second write, or an insert
\* over the written value
ExclusiveViews == {"ResMut", "OptResMut"}

SharedViews == {"Res", "OptRes", "ResClone", "OptResClone"}

WriteThenRead(t, u, ty, a, b, c, m, s) ==
    LET write == <<CAdd(t, ty, a), CGet(t, ty, m), CWrite(t, 1, b)>>
        read == <<CGet(u, ty, s), CRead(u, 1), CDrop(u)>>
    IN  { write \o <<CDrop(t)>> \o read,
          write \o <<CWrite(t, 1, c), CDrop(t)>> \o read,
          write \o <<CDrop(t), CAdd(u, ty, c)>> \o read }

Writes ==
    UNION {WriteThenRead(x[1], x[2], x[3], x[4], x[5], x[6], x[7], x[8]) :
        x \in Threads \X Threads \X ResTypes \X Vals \X Vals \X Vals
                \X ExclusiveViews \X SharedViews}

\* a clone is taken and read; the resource is then written through an exclusive
\* view, overwritten or removed by another thread; the clone is read again
CloneViews == {"ResClone", "OptResClone"}

CloneThenChange(t, u, ty, a, b, c, m) ==
    LET clone == <<CAdd(t, ty, a), IF c = "ResClone" THEN CGetTuple(t, <<ty>>, <<c>>)
                                   ELSE CGet(t, ty, c), CRead(t, 1)>>
    IN  { clone \o <<CGet(u, ty, m), CWrite(u, 1, b), CDrop(u), CRead(t, 1)>>,
          clone \o <<CAdd(u, ty, b), CRead(t, 1)>>,
          clone \o <<CRemove(u, ty), CRead(t, 1)>>,
          <<CAdd(t, ty, a), CGet(t, ty, c), CRead(t, 1), CAdd(u, ty, b), CRemove(u, ty),
            CRead(t, 1)>> }

Clones ==
    UNION {CloneThenChange(x[1], x[2], x[3], x[4], x[5], x[6], x[7]) :
        x \in {y \in Threads \X Threads \X ResTypes \X Vals \X Vals \X CloneViews
                    \X ExclusiveViews : y[1] # y[2]}}

\* a tuple of views on two resources is retrieved and dropped; in the second
\* form the second resource is absent and asked for optionally
TupleViews == {"Res", "ResMut", "ResClone", "OptRes", "OptResMut"}

Drops ==
    {<<CAdd(x[1], x[2], x[4]), CAdd(x[1], x[3], x[4]),
       CGetTuple(x[1], <<x[2], x[3]>>, <<x[5], x[6]>>), CDrop(x[1])>> :
        x \in {y \in Threads \X ResTypes \X ResTypes \X Vals \X TupleViews \X TupleViews :
                    y[2] # y[3]}}
    \cup
    {<<CAdd(x[1], x[2], x[4]),
       CGetTuple(x[1], <<x[2], x[3]>>, <<x[5], x[6]>>), CDrop(x[1])>> :
        x \in {y \in Threads \X ResTypes \X ResTypes \X Vals \X TupleViews
                    \X {"OptRes", "OptResMut"} : y[2] # y[3]}}

\* the Ref of a view is leaked; the thread then lets go of what is left and
\* overwrites the resource
Leaks ==
    {<<CAdd(t, ty, v), CGet(t, ty, w), CLeak(t, 1), CDrop(t), CAdd(t, ty, v)>> :
        <<t, ty, v, w>> \in Threads \X ResTypes \X Vals \X {"Res", "ResMut"}}

\* a value is inserted, over an earlier one or not, read, and removed twice
Overwrites ==
    UNION {{<<CAdd(x[1], x[2], x[3]), CAdd(x[1], x[2], x[4]), CGet(x[1], x[2], x[5]),
              CRead(x[1], 1), CDrop(x[1]), CRemove(x[1], x[2]), CRemove(x[1], x[2])>>,
            <<CAdd(x[1], x[2], x[4]), CGet(x[1], x[2], x[5]),
              CRead(x[1], 1), CDrop(x[1]), CRemove(x[1], x[2]), CRemove(x[1], x[2])>>} :
        x \in Threads \X ResTypes \X Vals \X Vals \X ViewNames}

\* every sequence of at most MaxCalls inserts, removes and membership tests
StoreCalls(t) ==
    {CAdd(t, ty, v) : <<ty, v>> \in ResTypes \X Vals}
        \cup {CRemove(t, ty) : ty \in ResTypes}
        \cup {CContains(t, ty) : ty \in ResTypes}

Sequences == UNION {[1..n -> StoreCalls(t)] : <<n, t>> \in (1..MaxCalls) \X Threads}

\* a box of any type is inserted under a type identity; the entry is then
\* removed, or retrieved and read or written
TypeErased ==
    UNION {{<<CAddAny(x[1], x[2], x[3], x[4]), CRemove(x[1], x[2])>>,
            <<CAddAny(x[1], x[2], x[3], x[4]), CGet(x[1], x[2], x[5]), CRead(x[1], 1)>>,
            <<CAddAny(x[1], x[2], x[3], x[4]), CGet(x[1], x[2], "ResMut"), CWrite(x[1], 1, x[4])>>} :
        x \in Threads \X ResTypes \X TypeIds \X Vals \X ViewNames}

Programs ==
    RoundTrips \cup Isolations \cup Writes \cup Clones \cup Drops \cup Leaks \cup Overwrites
        \cup Sequences \cup TypeErased

\* Container::default(): an empty map
InitSeq ==
    /\ EventInit
    /\ resources = [x \in {} |-> 0]
    /\ boxty = [x \in {} |-> 0]
    /\ pc = [t \in Threads |-> "idle"]
    /\ req = [t \in Threads |-> <<>>]
    /\ type_ids = [t \in Threads |-> <<>>]
    /\ cells = [t \in Threads |-> <<>>]
    /\ cur = [t \in Threads |-> <<>>]
    /\ result = [t \in Threads |-> <<>>]
    /\ arg = [t \in Threads |-> NoArg]
    /\ prog \in Programs
    /\ ip = 0
    /\ obs = <<>>

NextSeq ==
    \/ CallAdd
    \/ RunAddLocked
    \/ RunAddReturn
    \/ CallRemove
    \/ RunRemoveLocked
    \/ RunRemoveTake
    \/ CallContains
    \/ CallGet
    \/ RunGet
    \/ RunConvert
    \/ CallRead
    \/ CallWrite
    \/ CallDrop
    \/ CallLeak

SpecSeq == InitSeq /\ [][NextSeq]_vars

\* ------------------------------------------------------------- EventManager
\* Every lock of the EventManager is taken with borrow_mut().  emit_priority keeps
\* the guard of events from its first statement to its return and the guard of
\* events_set from line 84 to its return; every other guard is a temporary of one
\* statement.
EventsHeld == \E t \in Threads : epc[t] \in {"emit_set", "emit_find", "emit_push", "emit_new"}

SetHeld == \E t \in Threads : epc[t] \in {"emit_find", "emit_push", "emit_new"}

\* priority > *old_priority: PartialOrd of Priority is the reverse of the
\* order of the discriminants
Outranks(p, q) == p < q

\* usize::from(priority), as an index of a sequence
BusIndex(p) == p + 1

\* the bucket an upgraded info belongs in
BusIndexOfNew(index, new) == BusIndex(new)

\* self.events_bus.borrow_mut()[index].push(info): index is still that of the
\* old priority
BusIndexOfUpgrade(index, new) == index

\* a push at the front of the Vec
PushFront(vec, e) == <<e>> \o vec

\* Vec::push
Push(vec, e) == Append(vec, e)

\* a remove that leaves the Vec as it is
RemoveNothing(vec, k) == vec

\* Vec::remove(index)
RemoveAt(vec, k) == SubSeq(vec, 1, k - 1) \o SubSeq(vec, k + 1, Len(vec))

\* the call returns Some(event_type_id)
EmitReturns(t) ==
    /\ epc' = [epc EXCEPT ![t] = "idle"]
    /\ emitlog' = Append(emitlog, [id |-> eloc[t].id, ty |-> eloc[t].ty, p |-> eloc[t].p])

\* an unwrap of None: the call unwinds and its guards are dropped
EventPanic(t) == epc' = [epc EXCEPT ![t] = "panicked"] /\ UNCHANGED emitlog

\* lines 69-81: events.borrow_mut(), entry(..).or_insert(Vec::new()), push(event)
EmitPriority(t, ty, p) ==
    /\ epc[t] = "idle"
    /\ issued < MaxEmits
    /\ ~EventsHeld
    /\ issued' = issued + 1
    /\ events' = [x \in DOMAIN events \cup {ty} |->
            IF x = ty THEN Push(IF ty \in DOMAIN events THEN events[ty] ELSE <<>>, issued + 1)
            ELSE events[x]]
    /\ eloc' = [eloc EXCEPT ![t] = [NoLoc EXCEPT !.ty = ty, !.p = p, !.id = issued + 1]]
    /\ epc' = [epc EXCEPT ![t] = "emit_set"]
    /\ eret' = [eret EXCEPT ![t] = NoRet]
    /\ UNCHANGED <<events_set, events_bus, emitlog, delivered>>

\* lines 84-88, 116-119: events_set.borrow_mut(); a known type is upgraded or left
\* alone, a new type is inserted
EmitSet(t) ==
    /\ epc[t] = "emit_set"
    /\ ~SetHeld
    /\ LET ty == eloc[t].ty
           p == eloc[t].p
       IN  IF ty \in DOMAIN events_set
           THEN IF Outranks(p, events_set[ty])
                THEN /\ eloc' = [eloc EXCEPT ![t].idx = BusIndex(events_set[ty])]
                     /\ epc' = [epc EXCEPT ![t] = "emit_find"]
                     /\ UNCHANGED <<events_set, emitlog>>
                ELSE /\ EmitReturns(t)
                     /\ UNCHANGED <<events_set, eloc>>
           ELSE /\ events_set' = [x \in DOMAIN events_set \cup {ty} |->
                        IF x = ty THEN p ELSE events_set[x]]
                /\ epc' = [epc EXCEPT ![t] = "emit_new"]
                /\ UNCHANGED <<eloc, emitlog>>
    /\ UNCHANGED <<events, events_bus, eret, issued, delivered>>

\* lines 93-107: the info of the type is found in the bucket of the old priority
\* and removed from it
EmitFind(t) ==
    /\ epc[t] = "emit_find"
    /\ LET bucket == events_bus[eloc[t].idx]
           found == {k \in 1..Len(bucket) : bucket[k].ty = eloc[t].ty}
           k == CHOOSE x \in found : \A y \in found : x <= y
       IN  IF found = {}
           THEN EventPanic(t) /\ UNCHANGED <<events_bus, eloc>>
           ELSE /\ events_bus' = [events_bus EXCEPT ![eloc[t].idx] = RemoveAt(bucket, k)]
                /\ eloc' = [eloc EXCEPT ![t].info = bucket[k]]
                /\ epc' = [epc EXCEPT ![t] = "emit_push"]
                /\ UNCHANGED emitlog
    /\ UNCHANGED <<events, events_set, eret, issued, delivered>>

\* lines 110-114: the new priority is written to events_set and to the info, and
\* the info is pushed
EmitPush(t) ==
    /\ epc[t] = "emit_push"
    /\ events_set' = [events_set EXCEPT ![eloc[t].ty] = eloc[t].p]
    /\ events_bus' = [events_bus EXCEPT ![BusIndexOfUpgrade(eloc[t].idx, eloc[t].p)] =
            Push(@, [eloc[t].info EXCEPT !.priority = eloc[t].p])]
    /\ EmitReturns(t)
    /\ UNCHANGED <<events, eloc, eret, issued, delivered>>

\* lines 121-129: the info of a new type is pushed on the bucket of its priority
EmitNew(t) ==
    /\ epc[t] = "emit_new"
    /\ events_bus' = [events_bus EXCEPT ![BusIndex(eloc[t].p)] =
            Push(@, [ty |-> eloc[t].ty, priority |-> eloc[t].p])]
    /\ EmitReturns(t)
    /\ UNCHANGED <<events, events_set, eloc, eret, issued, delivered>>

\* the call returns None or Some(batch)
NextReturns(t, kind, batch) ==
    /\ epc' = [epc EXCEPT ![t] = "idle"]
    /\ eret' = [eret EXCEPT ![t] = [kind |-> kind, batch |-> batch]]

\* a call of next_execution begins
NextExecution(t) ==
    /\ epc[t] = "idle"
    /\ epc' = [epc EXCEPT ![t] = "next_scan"]
    /\ eloc' = [eloc EXCEPT ![t] = NoLoc]
    /\ eret' = [eret EXCEPT ![t] = NoRet]
    /\ UNCHANGED <<events, events_set, events_bus, issued, emitlog, delivered>>

\* lines 156-165, 191: under one guard of events_bus, the first bucket that is not
\* empty is found; None is returned when there is none
NextScan(t) ==
    /\ epc[t] = "next_scan"
    /\ LET full == {i \in DOMAIN events_bus : events_bus[i] # <<>>}
       IN  IF full = {}
           THEN NextReturns(t, "none", <<>>) /\ UNCHANGED eloc
           ELSE /\ eloc' = [eloc EXCEPT ![t].idx = Min(full)]
                /\ epc' = [epc EXCEPT ![t] = "next_take"]
                /\ UNCHANGED eret
    /\ UNCHANGED <<events, events_set, events_bus, issued, emitlog, delivered>>

\* line 168: std::mem::take of the bucket, under a second guard of events_bus
NextTake(t) ==
    /\ epc[t] = "next_take"
    /\ events_bus' = [events_bus EXCEPT ![eloc[t].idx] = <<>>]
    /\ LET infos == events_bus[eloc[t].idx]
       IN  IF infos = <<>>
           THEN NextReturns(t, "some", <<>>) /\ UNCHANGED eloc
           ELSE /\ eloc' = [eloc EXCEPT ![t].infos = infos]
                /\ epc' = [epc EXCEPT ![t] = "next_events"]
                /\ UNCHANGED eret
    /\ UNCHANGED <<events, events_set, issued, emitlog, delivered>>

\* lines 172-176: the events of the next info are removed from events
NextEvents(t) ==
    /\ epc[t] = "next_events"
    /\ ~EventsHeld
    /\ LET ty == Head(eloc[t].infos).ty
       IN  IF ty \notin DOMAIN events
           THEN /\ epc' = [epc EXCEPT ![t] = "panicked"]
                /\ UNCHANGED <<events, eloc, delivered>>
           ELSE /\ events' = MapRemove(events, ty)
                /\ eloc' = [eloc EXCEPT ![t].ev = events[ty]]
                /\ delivered' = delivered \cup {events[ty][k] : k \in 1..Len(events[ty])}
                /\ epc' = [epc EXCEPT ![t] = "next_set"]
    /\ UNCHANGED <<events_set, events_bus, eret, issued, emitlog>>

\* lines 179-188: the type is removed from events_set and the pair (info, events)
\* joins the batch; line 190 collects the batch
NextSet(t) ==
    /\ epc[t] = "next_set"
    /\ ~SetHeld
    /\ LET info == Head(eloc[t].infos)
           batch == Append(eloc[t].batch, [info |-> info, ev |-> eloc[t].ev])
       IN  IF info.ty \notin DOMAIN events_set
           THEN /\ epc' = [epc EXCEPT ![t] = "panicked"]
                /\ UNCHANGED <<events_set, eloc, eret>>
           ELSE /\ events_set' = MapRemove(events_set, info.ty)
                /\ IF Tail(eloc[t].infos) = <<>>
                   THEN NextReturns(t, "some", batch) /\ UNCHANGED eloc
                   ELSE /\ eloc' = [eloc EXCEPT ![t].infos = Tail(@), ![t].batch = batch,
                                                ![t].ev = <<>>]
                        /\ epc' = [epc EXCEPT ![t] = "next_events"]
                        /\ UNCHANGED eret
    /\ UNCHANGED <<events, events_bus, issued, emitlog, delivered>>

\* the store and the programs take no part in the event queue
NoStore == UNCHANGED <<resources, boxty, pc, req, type_ids, cells, cur, result, arg, prog, ip, obs>>

\* the calls of emit_priority and next_execution by threads that share one
\* EventManager, interleaved at every acquisition of a lock
NextEventsAll ==
    \E t \in Threads :
        \/ NoStore /\ \E ty \in EventTypes, p \in Priorities : EmitPriority(t, ty, p)
        \/ NoStore /\ EmitSet(t)
        \/ NoStore /\ EmitFind(t)
        \/ NoStore /\ EmitPush(t)
        \/ NoStore /\ EmitNew(t)
        \/ NoStore /\ NextExecution(t)
        \/ NoStore /\ NextScan(t)
        \/ NoStore /\ NextTake(t)
        \/ NoStore /\ NextEvents(t)
        \/ NoStore /\ NextSet(t)

SpecEvents == Init /\ [][NextEventsAll]_vars

\* no call is in progress
NoCall == \A t \in Threads : epc[t] \in {"idle", "panicked"}

\* the same calls, each begun only when no other call is in progress
NextEventsSeq ==
    \E t \in Threads :
        \/ NoStore /\ NoCall /\ \E ty \in EventTypes, p \in Priorities : EmitPriority(t, ty, p)
        \/ NoStore /\ EmitSet(t)
        \/ NoStore /\ EmitFind(t)
        \/ NoStore /\ EmitPush(t)
        \/ NoStore /\ EmitNew(t)
        \/ NoStore /\ NoCall /\ NextExecution(t)
        \/ NoStore /\ NextScan(t)
        \/ NoStore /\ NextTake(t)
        \/ NoStore /\ NextEvents(t)
        \/ NoStore /\ NextSet(t)

SpecEventsSeq == Init /\ [][NextEventsSeq]_vars

\* ------------------------------------------------------------- properties
Retrieving == {"get", "map_cell", "descend", "borrow_mut_wait", "convert"}

\* a thread is stopped at a per-resource lock
Blocked(t) ==
    \/ pc[t] = "descend" /\ Current(t).acc = "Immutable" /\ ~CanRead(Current(t).ty)
    \/ pc[t] = "descend" /\ Current(t).acc = "Mutable" /\ ~CanClaimWrite(Current(t).ty)
    \/ pc[t] = "borrow_mut_wait" /\ ~CanWrite(Current(t).ty)

\* C1: deadlock freedom of multi-resource retrieval.  With every thread issuing
\* well-formed tuple requests for present resources (any modes, any declared
\* order, overlapping type sets) and dropping the handles it gets, every
\* retrieval that has started eventually returns its tuple.
C1_RetrievalReturns ==
    \A t \in Threads : (pc[t] \in Retrieving) ~> (pc[t] = "holding")

\* two threads ask for the same two types in opposite declared order; one has its
\* tuple and the other is stopped at a lock the first one holds
C1_Witness ==
    \E t, u \in Threads :
        /\ t # u
        /\ Len(req[t]) = 2 /\ Len(req[u]) = 2
        /\ req[t][1].ty = req[u][2].ty /\ req[t][2].ty = req[u][1].ty
        /\ req[t][1].ty # req[t][2].ty
        /\ pc[t] = "holding"
        /\ Blocked(u)

\* the guard stacks of the handles a thread has: those get returned to retrieve
\* and those inside the views retrieve returned
HandleLocks(t) ==
    SelectSeq([i \in 1..Len(cells[t]) |-> cells[t][i].locks]
                  \o [i \in 1..Len(result[t]) |-> result[t][i].locks],
              LAMBDA h : h # <<>>)

Holds(t, l, m) == CountOf(GuardsOf(t), Guard(l, m)) > 0

Writers(l) == SetSum(Threads, [t \in Threads |-> CountOf(GuardsOf(t), Guard(l, "w"))])

\* a handle on the resource of type ty is live
LiveOn(ty) == \E t \in Threads : Holds(t, ty, "r") \/ Holds(t, ty, "w")

\* thread t has been returned a view of access acc that refers to resource ty
ViewOn(t, ty, acc) ==
    /\ pc[t] = "holding"
    /\ \E i \in 1..Len(result[t]) :
        /\ result[t][i].kind = "ref"
        /\ result[t][i].ty = ty
        /\ AccessOf(result[t][i].view) = acc

\* C2: read/write exclusivity per resource.  The content lock of a resource is
\* held by no one, by shared handles only, or by exactly one exclusive handle
\* and no shared one.
C2_ReadWriteExclusive ==
    \A ty \in ResTypes :
        \/ Writers(ty) = 0
        \/ Writers(ty) = 1 /\ Readers(ty) = 0

\* one thread has the exclusive handle on ty and another has reached ty's lock
C2_Witness ==
    \E t, u \in Threads : \E ty \in ResTypes :
        /\ t # u
        /\ Holds(t, ty, "w")
        /\ pc[u] = "descend"
        /\ Current(u).ty = ty

\* a thread holds a shared view on a, another has called insert for another type
C3_Case(t, u, a) ==
    /\ t # u
    /\ ViewOn(t, a, "Immutable")
    /\ pc[u] = "add_wait"
    /\ arg[u].ty # a

\* C3 as claimed: while a thread holds a shared view on A, an insert of an
\* unrelated type by another thread is not blocked, it can take the structural
\* lock and complete.
C3_InsertNotBlocked ==
    \A t, u \in Threads : \A a \in ResTypes :
        C3_Case(t, u, a) => ENABLED AddResourceLocked(u)

\* C3 as amended: while a thread holds a shared view on A, an insert of an
\* unrelated type by another thread is blocked at the structural lock; it
\* completes only after the view is dropped.
C3_InsertBlocked ==
    \A t, u \in Threads : \A a \in ResTypes :
        C3_Case(t, u, a) => ~ENABLED AddResourceLocked(u)

C3_Witness == \E t, u \in Threads : \E a \in ResTypes : C3_Case(t, u, a)

\* C4: while a handle on A is live, A is in the store and no remove of A has
\* taken A out of the map: a remove of A completes only once every handle on A
\* has been dropped.
C4_RemoveWaitsForHandles ==
    \A ty \in ResTypes :
        LiveOn(ty) =>
            /\ ty \in DOMAIN resources
            /\ \A u \in Threads : ~(pc[u] = "remove_held" /\ arg[u].ty = ty)

\* a handle on ty is live and another thread has called remove for ty
C4_Witness ==
    \E t, u \in Threads : \E ty \in ResTypes :
        /\ t # u
        /\ Holds(t, ty, "r") \/ Holds(t, ty, "w")
        /\ pc[u] = "remove_wait"
        /\ arg[u].ty = ty

\* C5: structural guard retention.  Every handle that holds a per-resource lock
\* holds, underneath it in the same guard stack, the structural lock in shared
\* mode; and while an insert or a remove holds the structural lock exclusively
\* no handle is live.
C5_StructuralGuardRetained ==
    /\ \A t \in Threads : \A k \in 1..Len(HandleLocks(t)) :
        LET h == HandleLocks(t)[k]
        IN  (\E j \in 1..Len(h) : h[j].l \in ResTypes) =>
                /\ h[1] = Guard(StructLock, "r")
                /\ \A j \in 2..Len(h) : h[j].l \in ResTypes
    /\ (\E u \in Threads : pc[u] \in {"add_held", "remove_held"}) =>
            \A t \in Threads : HandleLocks(t) = <<>>

\* a thread has been returned a handle while an insert or remove is waiting
C5_Witness ==
    \E t, u \in Threads :
        /\ pc[t] = "holding"
        /\ HandleLocks(t) # <<>>
        /\ pc[u] \in {"add_wait", "remove_wait"}

\* C6: get never faults.  A get that runs concurrently with a remove or an
\* insert of its type returns a handle or NotFound; the lookup after the
\* presence check never panics.
C6_GetNeverFaults == \A t \in Threads : pc[t] # "panic_unwrap"

\* the thread waits for a lock that one of its own guards keeps locked
SelfBlocked(t) ==
    /\ Blocked(t)
    /\ Holds(t, Current(t).ty, "r") \/ Holds(t, Current(t).ty, "w")

\* C7: a malformed request (the same type twice, at least once exclusively) is
\* rejected before any lock is acquired: the thread that issued it never owns
\* a guard, and never waits for a lock it holds itself.
C7_MalformedRejected ==
    \A t \in Threads : Malformed(req[t]) => (GuardsOf(t) = <<>> /\ ~SelfBlocked(t))

\* C8: positional correctness.  Element i of a returned tuple is for the i-th
\* declared type in the i-th declared mode: a handle in it holds that type's
\* lock in that mode.
C8_Positional ==
    \A t \in Threads :
        pc[t] = "holding" =>
            /\ Len(result[t]) = Len(req[t])
            /\ \A i \in 1..Len(req[t]) :
                /\ result[t][i].ty = req[t][i].ty
                /\ AccessOf(result[t][i].view) = req[t][i].acc
                /\ result[t][i].kind = "ref" =>
                    result[t][i].locks[Len(result[t][i].locks)] =
                        Guard(req[t][i].ty, IF req[t][i].acc = "Immutable" THEN "r" ELSE "w")

\* a returned tuple whose declared order is the reverse of the TypeId order,
\* with two different modes
C8_Witness ==
    \E t \in Threads :
        /\ pc[t] = "holding"
        /\ Len(req[t]) = 2
        /\ req[t][1].ty > req[t][2].ty
        /\ req[t][1].acc # req[t][2].acc
        /\ result[t][1].kind = "ref"
        /\ result[t][2].kind = "ref"

\* what get returned for declared position i
CellAt(t, i) == CHOOSE c \in {cells[t][k] : k \in 1..Len(cells[t])} : c.idx = i - 1

\* C9: required-view absence fails loudly.  A retrieval returns its tuple only
\* if no element that get did not find is a required view (Res, ResMut,
\* ResClone); with such an element the call panics and returns nothing.
C9_RequiredAbsentPanics ==
    [][\A t \in Threads :
        (pc[t] = "convert" /\ pc'[t] = "holding") =>
            \A i \in 1..Len(req[t]) :
                CellAt(t, i).tag = "NotFound" => ~Required(result'[t][i].view)]_vars

\* a tuple request of two types, one of them in the store, has panicked in
\* from_retrieved
C9_Witness ==
    \E t \in Threads :
        /\ pc[t] = "panic_unreachable"
        /\ Len(req[t]) = 2
        /\ \E i \in 1..2 : req[t][i].ty \in DOMAIN resources
        /\ \E i \in 1..2 : req[t][i].ty \notin DOMAIN resources

\* the wrappers of the request can all be optional views
CanBeOptional(r) ==
    \E direct \in BOOLEAN : \E vs \in ViewsOf(r, direct) : \A i \in 1..Len(vs) : ~Required(vs[i])

\* C10: an optional retrieval never fails.  Retrieving through optional views
\* (Option<Res>, Option<ResMut>, Option<ResClone>) is container.get followed by
\* a match that has no failing arm, so it fails exactly when get does: no thread
\* whose request can be one of optional views panics inside get.
C10_OptionalNeverFails ==
    \A t \in Threads : (req[t] # <<>> /\ CanBeOptional(req[t])) => pc[t] # "panic_unwrap"
\* ------------------------------------------------------------- programs: properties
\* the program has run to its end
Done == ip = Len(prog) /\ Len(obs) = Len(prog)

\* C11: absence round trip: after insert(T, v) an optional retrieval of T yields a
\* view; the remove of T that follows returns v; the optional retrieval after it
\* yields None.
C11_RoundTrip ==
    prog \in RoundTrips =>
        /\ Len(obs) >= 2 => obs[2] = Ob("views", <<1>>)
        /\ Len(obs) >= 4 => obs[4] = Ob("some", <<prog[1].v>>)
        /\ Len(obs) >= 5 => obs[5] = Ob("views", <<0>>)

C11_Witness == prog \in RoundTrips /\ Done

\* the step of remove_resource that takes the entry out of the map
RemovesEntry(t) == pc[t] = "remove_wait" /\ pc'[t] = "remove_held"

\* C12: type isolation: for distinct A and B, after inserting both and removing A,
\* B is contained and retrieved with its inserted value and A is absent; the
\* remove of A changes no entry but A's.
C12_TypeIsolation ==
    /\ [](prog \in Isolations =>
            /\ Len(obs) >= 3 => obs[3] = Ob("some", <<prog[1].v>>)
            /\ Len(obs) >= 4 => obs[4] = Ob("true", <<>>)
            /\ Len(obs) >= 5 => obs[5] = Ob("false", <<>>)
            /\ Len(obs) >= 6 => obs[6] = Ob("views", <<1>>)
            /\ Len(obs) >= 7 => obs[7] = Ob("value", <<prog[2].v>>))
    /\ [][\A t \in Threads : RemovesEntry(t) =>
            /\ DOMAIN resources' = DOMAIN resources \ {arg[t].ty}
            /\ \A x \in DOMAIN resources' :
                    resources'[x] = resources[x] /\ boxty'[x] = boxty[x]]_vars

C12_Witness ==
    prog \in Isolations /\ Done /\ DOMAIN resources = {prog[2].ty}

\* the value of the last insert or write among the first k calls of the program
RECURSIVE LastStored(_)
LastStored(k) ==
    IF k = 0 THEN 0
    ELSE IF prog[k].op \in {"add", "write"} THEN prog[k].v
    ELSE LastStored(k - 1)

\* C13: write visibility: after an exclusive view wrote v and was dropped, the next
\* shared retrieval reads v; a shared view reads the value of the most recent
\* completed insert or exclusive write.
C13_WriteVisible ==
    prog \in Writes =>
        \A k \in 1..Len(obs) :
            prog[k].op = "read" => obs[k] = Ob("value", <<LastStored(k)>>)

C13_Witness ==
    /\ prog \in Writes /\ Done
    /\ prog[1].v # prog[3].v
    /\ \E k \in 1..Len(obs) : prog[k].op = "read" /\ obs[k] = Ob("value", <<prog[3].v>>)

\* C14: clone-view isolation: the value in a snapshot-clone view is the stored value
\* at the time of retrieval, and no later exclusive write, overwrite or removal of
\* the resource changes it.
C14_CloneIsolated ==
    prog \in Clones =>
        \A k \in 1..Len(obs) :
            prog[k].op = "read" => obs[k] = Ob("value", <<prog[1].v>>)

C14_Witness ==
    /\ prog \in Clones /\ Done
    /\ \A x \in DOMAIN resources : resources[x] # prog[1].v
    /\ obs[Len(obs)] = Ob("value", <<prog[1].v>>)

\* the views a thread holds are clones or None
OnlyClones(t) ==
    /\ pc[t] = "holding"
    /\ \A i \in 1..Len(result[t]) : result[t][i].kind \in {"clone", "none"}

\* no other thread holds or waits for a lock
Alone(t) == \A u \in Threads \ {t} : GuardsOf(u) = <<>> /\ ParkedOn(u) = -1

\* C15: a clone retrieval holds no lock once it has returned: a clone view carries
\* no guard, a thread whose views are clones holds neither the structural lock nor
\* a per-resource lock, and an exclusive acquisition of any lock is not blocked by it.
C15_CloneHoldsNoLock ==
    \A t \in Threads :
        /\ pc[t] = "holding" =>
                \A i \in 1..Len(result[t]) :
                    result[t][i].kind = "clone" => result[t][i].locks = <<>>
        /\ OnlyClones(t) =>
                /\ GuardsOf(t) = <<>>
                /\ Alone(t) => \A l \in {StructLock} \cup ResTypes :
                                    CanClaimWrite(l) /\ CanWrite(l)

C15_Witness ==
    \E t \in Threads :
        /\ OnlyClones(t) /\ Alone(t)
        /\ \E i \in 1..Len(result[t]) : result[t][i].kind = "clone"

\* the views of a thread that are handles
Handles(t) == {i \in 1..Len(result[t]) : result[t][i].kind = "ref"}

\* the guards a handle on a resource acquired, in the order of acquisition
Acquired(v) == <<Guard(StructLock, "r"), Guard(v.ty, IF AccessOf(v.view) = "Mutable" THEN "w" ELSE "r")>>

\* the locks the drop of a thread's views has to release, in order
ReverseAcquired(t) ==
    Flatten([i \in 1..Len(result[t]) |->
        IF i \in Handles(t) THEN <<result[t][i].ty, StructLock>> ELSE <<>>])

\* C16: handle guard lifetime: a handle acquires the structural lock, then the
\* content lock; both stay locked until the handle is dropped, never released
\* before; the drop releases each guard exactly once, content lock first and
\* structural lock last.
C16_GuardLifetime ==
    /\ [](\A t \in Threads :
            /\ pc[t] \in {"descend", "borrow_mut_wait"} => cur[t] = <<Guard(StructLock, "r")>>
            /\ \A i \in Handles(t) :
                    /\ result[t][i].locks = Acquired(result[t][i])
                    /\ \A k \in 1..2 : CountOf(GuardsOf(t), Acquired(result[t][i])[k]) >= 1)
    /\ [][\A t \in Threads :
            /\ \A i \in Handles(t) :
                    (Len(result'[t]) >= i /\ result'[t][i].kind = "ref")
                        => result'[t][i].locks = result[t][i].locks
            /\ (pc[t] = "holding" /\ pc'[t] = "idle") =>
                    /\ obs'[Len(obs')] = Ob("released", ReverseAcquired(t))
                    /\ Len(GuardsOf(t)) = 2 * Cardinality(Handles(t))
                    /\ GuardsOf(t)' = <<>>]_vars

C16_Witness ==
    /\ prog \in Drops /\ Done
    /\ obs[Len(obs)] = Ob("released", <<prog[1].ty, StructLock, prog[2].ty, StructLock>>)

\* thread t leaks the Ref of its view i
LeakStep(t, i) ==
    /\ i \in Handles(t)
    /\ Len(result'[t]) >= i
    /\ result'[t][i].kind = "leaked"

\* C17: leak returns the pointer without releasing a guard: after it every lock
\* the handle had acquired is still held.
C17_LeakKeepsGuards ==
    [][\A t \in Threads : \A i \in 1..Len(result[t]) :
            LeakStep(t, i) => GuardsOf(t)' = GuardsOf(t)]_vars

\* the position in the program of the call that reads the view
ReadAt == CHOOSE k \in 1..Len(prog) : prog[k].op = "read"

\* the entry is in the map and add_resource_any has not yet let go of the lock
Inserted(t) ==
    /\ cur[t] = <<Guard(StructLock, "w")>>
    /\ Readers(StructLock) = 0
    /\ \A u \in Threads \ {t} : CountOf(GuardsOf(u), Guard(StructLock, "w")) = 0
    /\ arg[t].ty \in DOMAIN resources
    /\ resources[arg[t].ty] = arg[t].v
    /\ Readers(arg[t].ty) = 0
    /\ ~WriterBit(arg[t].ty)

\* C18: insert and overwrite: insert(T, v) holds the structural lock exclusively;
\* after it the entry of T holds v behind a lock nobody holds, whatever was stored
\* before; a later retrieval reads v, a remove returns v and a second remove
\* returns None.
C18_InsertOverwrites ==
    /\ \A t \in Threads : pc[t] = "add_held" => Inserted(t)
    /\ prog \in Overwrites =>
        /\ Len(obs) >= ReadAt => obs[ReadAt] = Ob("value", <<prog[ReadAt - 2].v>>)
        /\ Len(obs) >= ReadAt + 2 => obs[ReadAt + 2] = Ob("some", <<prog[ReadAt - 2].v>>)
        /\ Len(obs) >= ReadAt + 3 => obs[ReadAt + 3] = Ob("none", <<>>)

C18_Witness ==
    /\ prog \in Overwrites /\ Done
    /\ ReadAt = 4
    /\ prog[1].v # prog[2].v
    /\ obs[6] = Ob("some", <<prog[2].v>>)

\* the reference map after the first k calls of the program: a partial map from
\* type to value, set by insert and cleared by remove
RECURSIVE RefMap(_)
RefMap(k) ==
    IF k = 0 THEN [x \in {} |-> 0]
    ELSE LET m == RefMap(k - 1)
             c == prog[k]
         IN  IF c.op = "add"
             THEN [x \in DOMAIN m \cup {c.ty} |-> IF x = c.ty THEN c.v ELSE m[x]]
             ELSE IF c.op = "remove"
             THEN [x \in DOMAIN m \ {c.ty} |-> m[x]]
             ELSE m

\* what call k returns on the reference map
RefReturn(k) ==
    LET m == RefMap(k - 1)
        c == prog[k]
    IN  IF c.op = "add" THEN Ob("unit", <<>>)
        ELSE IF c.op = "remove"
        THEN IF c.ty \in DOMAIN m THEN Ob("some", <<m[c.ty]>>) ELSE Ob("none", <<>>)
        ELSE Ob(IF c.ty \in DOMAIN m THEN "true" ELSE "false", <<>>)

\* C19: remove and contains against a reference map: after any sequence of inserts
\* and removes, contains(T) is true exactly when the last of them on T was an
\* insert; remove(T) returns the stored value and leaves T absent when T is
\* present, and returns None and leaves the store as it was when T is absent.
C19_RefinesMap ==
    prog \in Sequences =>
        /\ \A k \in 1..Len(obs) : obs[k] = RefReturn(k)
        /\ (Quiescent /\ Len(obs) = ip) => resources = RefMap(ip)

C19_Witness ==
    /\ prog \in Sequences /\ Done /\ Len(prog) = MaxCalls
    /\ obs[2] = Ob("some", <<prog[1].v>>)
    /\ obs[3] = Ob("false", <<>>)

\* C20: type-tag invariant: after any sequence of typed inserts, type-erased inserts
\* and removes, every entry stored under K holds a box whose dynamic type is K, so
\* that no downcast in remove or in the dereference of a view fails.
C20_TypeTag ==
    /\ \A K \in DOMAIN resources : boxty[K] = K
    /\ \A t \in Threads : pc[t] # "panic_downcast"
\* ---------------------------------------------------- EventManager: properties
\* the ids of the events of type ty whose emit has returned and which no
\* next_execution has taken out of events
PendingIds(ty) ==
    {emitlog[k].id : k \in {j \in 1..Len(emitlog) : emitlog[j].ty = ty}} \ delivered

PendingTypes == {ty \in EventTypes : PendingIds(ty) # {}}

\* the highest priority at which a pending event of the type was emitted
EffPriority(ty) ==
    Min({emitlog[k].p : k \in {j \in 1..Len(emitlog) :
            emitlog[j].ty = ty /\ emitlog[j].id \notin delivered}})

\* the types of a returned batch
BatchTypes(batch) == {batch[k].info.ty : k \in 1..Len(batch)}

\* thread t returns from next_execution in this step
NextReturnsNone(t) == epc[t] = "next_scan" /\ epc'[t] = "idle" /\ eret'[t].kind = "none"

NextReturnsSome(t) ==
    epc[t] \in {"next_take", "next_set"} /\ epc'[t] = "idle" /\ eret'[t].kind = "some"

EventPanicked == \E t \in Threads : epc[t] = "panicked"

\* C21: a batch returned by next_execution holds the types of the highest
\* priority level that has a pending type: once it is returned, every type still
\* pending has a strictly lower priority than every type of the batch.
C21_HighestFirst ==
    [][\A t \in Threads : NextReturnsSome(t) =>
            \A k \in 1..Len(eret'[t].batch) : \A u \in PendingTypes' :
                eret'[t].batch[k].info.priority < EffPriority(u)']_vars

\* the buckets that hold an info of the type
BucketsOf(ty) ==
    {i \in DOMAIN events_bus : \E k \in 1..Len(events_bus[i]) : events_bus[i][k].ty = ty}

\* C22: a pending type emitted again at a strictly higher priority is promoted:
\* between calls every queued type is scheduled at the level of its priority,
\* the highest one emitted for it since it was last executed.
C22_UpgradePromotes ==
    NoCall => \A ty \in PendingTypes :
        /\ ty \in DOMAIN events_set
        /\ events_set[ty] = EffPriority(ty)
        /\ BucketsOf(ty) = {BusIndex(events_set[ty])}

\* the queue entries of the type: bucket and position
EntriesOf(ty) ==
    {e \in (DOMAIN events_bus) \X (1..MaxEmits) :
        e[2] <= Len(events_bus[e[1]]) /\ events_bus[e[1]][e[2]].ty = ty}

\* the priorities at which the events now in events[ty] were emitted, by calls
\* that returned and by calls that did not
EmittedPriorities(ty) ==
    {emitlog[k].p : k \in {j \in 1..Len(emitlog) :
            emitlog[j].ty = ty /\ emitlog[j].id \notin delivered}}
    \cup {eloc[t].p : t \in {u \in Threads :
            epc[u] = "panicked" /\ eloc[u].ty = ty /\ eloc[u].id \notin delivered}}

\* C23: a type emitted several times before it is executed has exactly one queue
\* entry, and the entry carries the highest priority the type was emitted with;
\* an emit at a lower or equal priority neither lowers it nor adds an entry.
C23_SingleEntry ==
    NoCall => \A ty \in DOMAIN events :
        /\ Cardinality(EntriesOf(ty)) = 1
        /\ \A e \in EntriesOf(ty) :
                events_bus[e[1]][e[2]].priority = Min(EmittedPriorities(ty))

\* the ids of the events of the type that were pushed on events[ty], by calls
\* that returned and by calls that did not
EmittedIds(ty) ==
    {emitlog[k].id : k \in {j \in 1..Len(emitlog) : emitlog[j].ty = ty}}
    \cup {eloc[t].id : t \in {u \in Threads : epc[u] = "panicked" /\ eloc[u].ty = ty}}

\* ids are issued in the order of the pushes on events
InEmissionOrder(ev) == \A j, k \in 1..Len(ev) : j < k => ev[j] < ev[k]

\* thread t takes the events of the next info of its bucket in this step
TakesEvents(t) == epc[t] = "next_events" /\ epc'[t] = "next_set"

\* thread t completes an element of its batch in this step
JoinsBatch(t) == epc[t] = "next_set" /\ epc'[t] \in {"next_events", "idle"}

\* the batch thread t has built after the step
BatchAfter(t) == IF epc'[t] = "idle" THEN eret'[t].batch ELSE eloc'[t].batch

\* C24: the batch of a type holds every event of the type emitted since the type
\* was last returned, each once, in emission order, and afterwards the type is
\* not pending.
C24_Batching ==
    [][\A t \in Threads :
            /\ TakesEvents(t) =>
                LET ty == Head(eloc[t].infos).ty
                    ev == eloc'[t].ev
                IN  /\ InEmissionOrder(ev)
                    /\ {ev[k] : k \in 1..Len(ev)} = EmittedIds(ty) \ delivered
                    /\ ty \notin DOMAIN events'
                    /\ ty \notin PendingTypes'
            /\ JoinsBatch(t) =>
                /\ BatchAfter(t)[Len(BatchAfter(t))].ev = eloc[t].ev
                /\ BatchAfter(t)[Len(BatchAfter(t))].info.ty = Head(eloc[t].infos).ty
                /\ Len(BatchAfter(t)) = Len(eloc[t].batch) + 1]_vars

\* a batch that holds two events of one type has been returned
C24_Witness ==
    \E t \in Threads : eret[t].kind = "some" /\
        \E k \in 1..Len(eret[t].batch) : Len(eret[t].batch[k].ev) >= 2

\* a next_execution in progress has taken the info of the type out of its bucket
\* and has yet to take the events of the type
Claimed(ty) ==
    \E t \in Threads :
        LET rest == IF epc[t] = "next_events" THEN eloc[t].infos
                    ELSE IF epc[t] = "next_set" THEN Tail(eloc[t].infos)
                    ELSE <<>>
        IN  \E k \in 1..Len(rest) : rest[k].ty = ty

\* C25: in every interleaving of emit_priority and next_execution,
\* next_execution returns None only when no event is pending (but for those a
\* concurrent next_execution is about to return), and every batch it returns is
\* non-empty.
C25_NoneOnlyWhenEmpty ==
    [][\A t \in Threads :
            /\ NextReturnsNone(t) => \A ty \in PendingTypes : Claimed(ty)
            /\ NextReturnsSome(t) => eret'[t].batch # <<>>]_vars

\* ------------------------------------------------- Container::get: properties
\* thread t is inside a retrieval: between the sort of type_ids and the conversion
InRetrieval(t) ==
    pc[t] \in {"get", "map_cell", "descend", "borrow_mut_wait", "hashmap_wait", "convert"}

\* the types of a request, as a set
TypeSet(r) == {r[i].ty : i \in 1..Len(r)}

\* the types get is called with, in the order of the calls
GetOrder(t) == [k \in 1..Len(type_ids[t]) |-> type_ids[t][k].ty]

\* C26: canonical acquisition order.  Within one tuple retrieval get is called
\* once per requested (type, mode) pair, in ascending order of the type
\* identities whatever the declared order, so two requests over the same set of
\* types go through the per-resource locks in the same sequence.
C26_CanonicalOrder ==
    \A t \in Threads : InRetrieval(t) =>
        /\ Len(cells[t]) <= Len(req[t])
        /\ pc[t] = "convert" => Len(cells[t]) = Len(req[t])
        /\ \A k \in 1..Len(cells[t]) :
            /\ cells[t][k].idx + 1 \in 1..Len(req[t])
            /\ cells[t][k].ty = req[t][cells[t][k].idx + 1].ty
            /\ cells[t][k].tag \in {req[t][cells[t][k].idx + 1].acc, "NotFound"}
        /\ \A j, k \in 1..Len(cells[t]) : j < k =>
            /\ cells[t][j].idx # cells[t][k].idx
            /\ cells[t][j].ty <= cells[t][k].ty
            /\ WellFormed(req[t]) => cells[t][j].ty < cells[t][k].ty
        /\ \A u \in Threads :
            (InRetrieval(u) /\ WellFormed(req[t]) /\ WellFormed(req[u])
                /\ TypeSet(req[t]) = TypeSet(req[u])) => GetOrder(t) = GetOrder(u)

\* two threads have each got both resources, declared in opposite orders
C26_Witness ==
    \E t, u \in Threads :
        /\ pc[t] = "convert" /\ pc[u] = "convert"
        /\ Len(req[t]) = 2 /\ Len(req[u]) = 2
        /\ req[t][1].ty > req[t][2].ty
        /\ req[u][1].ty < req[u][2].ty
        /\ TypeSet(req[t]) = TypeSet(req[u])
        /\ \A k \in 1..2 : cells[t][k].tag = "Immutable" /\ cells[u][k].tag = "Immutable"

\* the guard mode of an access mode
ModeOf(acc) == IF acc = "Immutable" THEN "r" ELSE "w"

\* the arm of a wrapper's match for a handle of the mode it did not ask for
\* (unreachable!() in the retrieve functions)
WrongModeArm(view, c) == c.tag \in Accesses /\ c.tag # AccessOf(view)

\* the guards a handle on the type holds
GuardsOfHandle(ty, acc) ==
    IF ty = HashMapTypeId THEN <<Guard(StructLock, ModeOf(acc))>>
    ELSE <<Guard(StructLock, "r"), Guard(ty, ModeOf(acc))>>

\* C27: mode fidelity of get.  get(T, shared) returns a shared handle or
\* not-found and get(T, exclusive) an exclusive handle or not-found; a handle
\* holds the per-resource lock in exactly the requested mode; so no wrapper's
\* match ever sees a handle of the other mode.
C27_ModeFidelity ==
    \A t \in Threads : \A k \in 1..Len(cells[t]) :
        LET c == cells[t][k]
            r == req[t][c.idx + 1]
        IN  /\ c.tag \in {r.acc, "NotFound"}
            /\ c.tag = "NotFound" => c.locks = <<>>
            /\ c.tag = r.acc => c.locks = GuardsOfHandle(c.ty, r.acc)
            /\ \A view \in ViewNames : AccessOf(view) = r.acc => ~WrongModeArm(view, c)

\* one retrieval has got a shared and an exclusive handle
C27_Witness ==
    \E t \in Threads :
        /\ pc[t] = "convert"
        /\ Len(cells[t]) = 2
        /\ cells[t][1].tag = "Immutable"
        /\ cells[t][2].tag = "Mutable"

\* thread t runs the presence check of get in this step, for a type that is absent
GetAbsent(t) ==
    /\ pc[t] = "get"
    /\ Current(t).ty # HashMapTypeId
    /\ Current(t).ty \notin DOMAIN resources
    /\ <<pc[t], cells[t]>> # <<pc'[t], cells'[t]>>

\* C28: get on an absent type returns not-found, leaves no lock held by the
\* call (neither the structural lock nor a per-resource lock) and leaves the
\* store unchanged.
C28_AbsentGet ==
    [][\A t \in Threads : GetAbsent(t) =>
            /\ cells'[t] = Append(cells[t], [ty |-> Current(t).ty, tag |-> "NotFound",
                                             locks |-> <<>>, idx |-> Current(t).idx])
            /\ pc'[t] \in {"get", "convert"}
            /\ GuardsOf(t)' = GuardsOf(t)
            /\ ParkedOn(t)' = ParkedOn(t)
            /\ resources' = resources
            /\ boxty' = boxty]_vars

\* a retrieval has got a handle on one type and not-found for the other
C28_Witness ==
    \E t \in Threads :
        /\ pc[t] = "convert"
        /\ Len(cells[t]) = 2
        /\ \E j, k \in 1..2 : cells[t][j].tag = "NotFound" /\ cells[t][k].tag = "Mutable"
        /\ Len(GuardsOf(t)) = 2

\* C29: a request for the store's own map type is always found, also on an
\* empty store: the handle holds the structural lock itself, in the requested
\* mode, and no per-resource lock.
C29_OwnMapFound ==
    \A t \in Threads : \A k \in 1..Len(cells[t]) :
        cells[t][k].ty = HashMapTypeId =>
            /\ cells[t][k].tag = req[t][cells[t][k].idx + 1].acc
            /\ cells[t][k].locks = <<Guard(StructLock, ModeOf(cells[t][k].tag))>>

\* the map of an empty store has been got for writing
C29_Witness ==
    \E t \in Threads :
        /\ DOMAIN resources = {}
        /\ pc[t] = "convert"
        /\ Len(cells[t]) = 1
        /\ cells[t][1].ty = HashMapTypeId
        /\ cells[t][1].tag = "Mutable"
        /\ GuardsOf(t) = <<Guard(StructLock, "w")>>

\* thread u, which has a call in progress or holds a tuple, takes its next step
Advance(u) ==
    \/ Step(u)
    \/ NoProgram /\ AddResourceLocked(u)
    \/ NoProgram /\ AddResourceReturn(u)
    \/ NoProgram /\ RemoveResourceLocked(u)
    \/ NoProgram /\ RemoveResourceTake(u)

\* thread t is getting the handles of a tuple of two or more types, all present
TupleOfPresent(t) ==
    /\ pc[t] \in {"get", "map_cell", "descend", "borrow_mut_wait"}
    /\ Len(req[t]) >= 2
    /\ WellFormed(req[t])
    /\ TypeSet(req[t]) \subseteq DOMAIN resources

\* C30: a tuple retrieval of two or more present types interleaved with an insert
\* or a remove by another thread is never stuck for good: while it is under way,
\* some call in progress can take a step.
C30_NoWriterDeadlock ==
    \A t \in Threads : TupleOfPresent(t) => \E u \in Threads : ENABLED Advance(u)

\* thread t takes the next step of a retrieval that may name the map type
AdvanceOwnMap(t) ==
    \/ Step(t)
    \/ NoProgram /\ GetHashMap(t)
    \/ NoProgram /\ GetHashMapMutClaim(t)
    \/ NoProgram /\ GetHashMapMut(t)

\* thread t is the only one at work: the others are idle and hold nothing
SingleThreaded(t) == \A u \in Threads \ {t} : pc[u] = "idle" /\ GuardsOf(u) = <<>>

\* thread t retrieves a tuple of the map type, exclusively, and one other type
\* that is present
OwnMapTuple(t) ==
    /\ InRetrieval(t)
    /\ Len(req[t]) = 2
    /\ WellFormed(req[t])
    /\ \E i \in 1..2 : req[t][i] = [ty |-> HashMapTypeId, acc |-> "Mutable"]
    /\ TypeSet(req[t]) \ {HashMapTypeId} \subseteq DOMAIN resources

\* C31: a single-threaded tuple retrieval of the map type, exclusively, with
\* another present type is never stuck on the structural lock it holds itself:
\* while it is under way it can take its next step.
C31_OwnMapTupleReturns ==
    \A t \in Threads : (SingleThreaded(t) /\ OwnMapTuple(t)) => ENABLED AdvanceOwnMap(t)

\* the retrieval of thread t has failed because a required type was absent
FailedRetrieval(t) == pc[t] \in {"panic_not_found", "panic_unreachable"}

\* the retrieval of thread t fails in this step
Fails(t) == pc[t] = "convert" /\ FailedRetrieval(t)'

\* C32: a failing retrieval leaves no lock behind.  When a single or tuple
\* retrieval fails because a required type is absent, every guard got during the
\* call, those of the handles on the present elements included, is released in
\* the failing step, and the thread holds and claims no lock from then on.
C32_FailureReleases ==
    /\ [](\A t \in Threads : FailedRetrieval(t) => GuardsOf(t) = <<>> /\ ParkedOn(t) = -1)
    /\ [][\A t \in Threads : Fails(t) =>
            /\ GuardsOf(t)' = <<>>
            /\ \A l \in {StructLock} \cup ResTypes :
                /\ Readers(l)' = Readers(l) - CountOf(GuardsOf(t), Guard(l, "r"))
                /\ CountOf(GuardsOf(t), Guard(l, "w")) > 0 => ~WriterBit(l)']_vars

\* a tuple retrieval has failed on its absent element, and the other thread has
\* since got the present element exclusively
C32_Witness ==
    \E t, u \in Threads :
        /\ pc[t] = "panic_unreachable"
        /\ Len(req[t]) = 2
        /\ \E i, j \in 1..2 :
            /\ req[t][i].ty \notin DOMAIN resources
            /\ req[t][j] = [ty |-> req[t][j].ty, acc |-> "Mutable"]
            /\ pc[u] = "holding"
            /\ Len(result[u]) = 1
            /\ result[u][1].ty = req[t][j].ty
            /\ result[u][1].locks = <<Guard(StructLock, "r"), Guard(req[t][j].ty, "w")>>

\* the types that have an entry in one of the four buckets
QueuedTypes == {ty \in EventTypes : EntriesOf(ty) # {}}

\* C33: bookkeeping of the event queue in sequential use.  Between calls, the
\* types that have a stored event vector, the types of the priority map and the
\* types with an entry in the buckets are the same set, and each of them has
\* exactly one entry across all buckets.
C33_Bookkeeping ==
    NoCall =>
        /\ DOMAIN events = DOMAIN events_set
        /\ DOMAIN events_set = QueuedTypes
        /\ \A ty \in QueuedTypes : Cardinality(EntriesOf(ty)) = 1
        /\ \A i \in DOMAIN events_bus : \A k \in 1..Len(events_bus[i]) :
                events_bus[i][k].ty \in EventTypes

\* between calls, after a batch has been handed out, a type is queued whose
\* priority has been upgraded
C33_Witness ==
    /\ NoCall
    /\ delivered # {}
    /\ \E ty \in DOMAIN events :
        /\ Len(events[ty]) = 2
        /\ \E i \in BucketsOf(ty) : i # BusIndex(events_set[ty])

====
